---------------------------- MODULE Spec2Model ----------------------------
(***************************************************************************)
(* A model of the Worker binding of src/bun.js/bindings/webcore/           *)
(* JSWorker.cpp: the constructor, the prototype functions (postMessage,    *)
(* terminate, ref, unref), the threadId and event-handler accessors and    *)
(* the reachability callback of the wrapper's weak-handle owner.  The      *)
(* native Worker object the binding drives (WebCore::Worker) is not part   *)
(* of that file; its operations are the Worker_* definitions below,        *)
(* written from the contract the specification gives for it.               *)
(***************************************************************************)
EXTENDS Integers, Sequences, FiniteSets, TLC

\* ------------------------------------------------------------ bounds ----
\* Wrappers the process may construct.
MaxWorkers == 2
\* Successful postMessage calls per handle.
MaxSends == 2
\* Messages the worker thread posts back to its handle.
MaxPosts == 1

Handles == 1..MaxWorkers

\* ------------------------------------------------------ JavaScript values
\* A value as the binding inspects it: its type, what hasIteratorMethod
\* answers for it ("none", "method", or "throws" when looking the method up
\* raises), the elements an iteration yields, and its `transfer` property.
\* An element is the name of a transferable resource (an object) or "prim"
\* (a value that is not an object).
Resources == {"r1"}
Prim == "prim"

ListValue(type, iter, elems) ==
    [type |-> type, iter |-> iter, elems |-> elems]

NoValue == ListValue("undefined", "none", <<>>)

Value(type, iter, elems, hasTransfer, transfer) ==
    [type |-> type, iter |-> iter, elems |-> elems,
     hasTransfer |-> hasTransfer, transfer |-> transfer]

Plain(type) == Value(type, "none", <<>>, FALSE, NoValue)

Undefined == Plain("undefined")
Null == Plain("null")
Number5 == Plain("number")
\* A string primitive is iterable in script, and is not an object.
StringX == Value("string", "method", <<Prim>>, FALSE, NoValue)
Message == Plain("object")
Closure == Plain("function")
Array(elems) == Value("object", "method", elems, FALSE, NoValue)
Options(transfer) == Value("object", "none", <<>>, TRUE, transfer)
ListArray(elems) == ListValue("object", "method", elems)

\* Element lists used as inputs.
ElemLists == {<<>>, <<"r1">>, <<Prim>>}

\* The shapes a second argument of postMessage is drawn from.
SecondArgs ==
    {Undefined, Null, Number5, StringX, Message, Closure}
    \cup {Array(e) : e \in ElemLists}
    \cup {Options(ListArray(e)) : e \in ElemLists}
    \cup {Options(ListValue("number", "none", <<>>)), Options(NoValue)}
    \cup {Value("object", "method", <<>>, TRUE, ListArray(<<"r1">>))}
    \cup {Value("object", "throws", <<>>, FALSE, NoValue)}

FirstArgs == {Message, Closure}

\* Argument lists of a postMessage call: zero to three arguments.
ArgLists ==
    {<<>>}
    \cup {<<m>> : m \in FirstArgs}
    \cup {<<m, s>> : m \in FirstArgs, s \in SecondArgs}
    \cup {<<m, s, t>> : m \in FirstArgs, s \in SecondArgs, t \in {Undefined, Message}}

\* The argument lists script calls postMessage with on a handle: one of each
\* way a call can end.
PostArgLists ==
    {<<>>, <<Message>>, <<Closure>>,
     <<Message, Number5>>,
     <<Message, Array(<<>>)>>,
     <<Message, Array(<<"r1">>)>>,
     <<Message, Array(<<Prim>>)>>,
     <<Message, Options(ListArray(<<"r1">>))>>}

isObject(v) == v.type \in {"object", "function"}
isUndefined(v) == v.type = "undefined"
isUndefinedOrNull(v) == v.type \in {"undefined", "null"}

\* callFrame->argument(i): undefined past the end of the argument list.
argument(args, i) == IF i + 1 <= Len(args) THEN args[i + 1] ELSE Undefined

\* JSC::hasIteratorMethod: only an object can have the method.
hasIteratorMethod(v) == isObject(v) /\ v.iter = "method"
hasIteratorMethodThrows(v) == isObject(v) /\ v.iter = "throws"

\* convert<IDLSequence<IDLObject>>: the value must be an iterable object
\* and every element it yields an object.
convertSequenceOfObjects(v) ==
    IF isObject(v) /\ v.iter = "method"
         /\ \A i \in 1..Len(v.elems) : v.elems[i] # Prim
    THEN [error |-> "none", list |-> v.elems]
    ELSE [error |-> "TypeError", list |-> <<>>]

\* What a postMessage call resolves to: the overload taken, the message and
\* the transfer list handed to Worker::postMessage, or the error thrown
\* before that call is made.
Resolved(form, message, transfer) ==
    [form |-> form, error |-> "none", message |-> message, transfer |-> transfer]
Thrown(form, error) ==
    [form |-> form, error |-> error, message |-> Undefined, transfer |-> <<>>]

\* postMessage(message, sequence<object> transfer)
jsWorkerPrototypeFunction_postMessage1Body(args) ==
    LET transfer == convertSequenceOfObjects(args[2])
    IN  IF transfer.error # "none"
        THEN Thrown("transferList", transfer.error)
        ELSE Resolved("transferList", args[1], transfer.list)

\* The options form with the `transfer` property never read.
postMessage2Body_transferNotRead(args) ==
    Resolved("options", args[1], <<>>)

\* postMessage(message, optional StructuredSerializeOptions options)
jsWorkerPrototypeFunction_postMessage2Body(args) ==
    LET optionsValue == argument(args, 1)
    IN  IF isObject(optionsValue) /\ optionsValue.hasTransfer
        THEN LET transferList == convertSequenceOfObjects(optionsValue.transfer)
             IN  IF transferList.error # "none"
                 THEN Thrown("options", transferList.error)
                 ELSE Resolved("options", args[1], transferList.list)
        ELSE Resolved("options", args[1], <<>>)

Min(a, b) == IF a < b THEN a ELSE b

postMessageOverloadDispatcher_objectFirst(args) ==
    LET argsCount == Min(2, Len(args))
    IN  IF argsCount = 1 THEN jsWorkerPrototypeFunction_postMessage2Body(args)
        ELSE IF argsCount = 2
        THEN LET distinguishingArg == args[2]
             IN  IF isUndefinedOrNull(distinguishingArg)
                 THEN jsWorkerPrototypeFunction_postMessage2Body(args)
                 ELSE IF isObject(distinguishingArg)
                 THEN jsWorkerPrototypeFunction_postMessage2Body(args)
                 ELSE Thrown("none", "TypeError")
        ELSE Thrown("none", "ArgumentError")

jsWorkerPrototypeFunction_postMessageOverloadDispatcher(args) ==
    LET argsCount == Min(2, Len(args))
    IN  IF argsCount = 1 THEN jsWorkerPrototypeFunction_postMessage2Body(args)
        ELSE IF argsCount = 2
        THEN LET distinguishingArg == args[2]
             IN  IF isUndefined(distinguishingArg)
                 THEN jsWorkerPrototypeFunction_postMessage2Body(args)
                 ELSE IF isUndefinedOrNull(distinguishingArg)
                 THEN jsWorkerPrototypeFunction_postMessage2Body(args)
                 ELSE IF hasIteratorMethodThrows(distinguishingArg)
                 THEN Thrown("none", "IteratorLookupError")
                 ELSE IF hasIteratorMethod(distinguishingArg)
                 THEN jsWorkerPrototypeFunction_postMessage1Body(args)
                 ELSE IF isObject(distinguishingArg)
                 THEN jsWorkerPrototypeFunction_postMessage2Body(args)
                 ELSE Thrown("none", "TypeError")
        ELSE Thrown("none", "ArgumentError")


\* ------------------------------------------------------------- state ----
EventNames == {"message", "messageerror", "error"}

VARIABLES
    status,               \* wrapper of slot h: "none", "live", "unstarted", "finalized"
    clientIdentifier,     \* Worker::clientIdentifier() of slot h
    keepAlive,            \* the Worker's keep-alive flag
    terminateRequested,   \* Worker::terminate() has been called
    threadState,          \* "none", "running", "exited"
    externalRef,          \* script still holds a reference to the wrapper
    handlers,             \* event-handler attribute of each event name
    inbox,                \* messages enqueued for the thread, oldest first
    received,             \* ids of the messages the thread has been handed
    outbox,               \* messages the thread posted to its handle
    fired,                \* ids of the `message` events fired on the handle
    senderHas,            \* the caller's side can use the resource
    receiverHas,          \* the thread's side can use the resource
    contextStopped,       \* the creating context has been torn down
    processExited,        \* the process has exited by idleness
    nextClientIdentifier, \* the identifier the next Worker::create assigns
    lastCall,             \* the last call script made and how it ended
    initialKeepAlive,     \* the keep-alive flag slot h was constructed with
    lastRefCall,          \* "none", "ref", "unref": the last of the two called
    terminateCalls,       \* terminate() calls script made on the handle: 0, 1, or 2 for more
    sent,                 \* ids of the messages of successful postMessage calls
    posted,               \* how many messages the thread has posted
    transferred,          \* resources named by a successful postMessage call
    dispatchArgs,         \* overload resolution alone: the argument list
    dispatchResult,       \* overload resolution alone: what it resolved to
    constructCall         \* the constructor alone: the call script makes

handleVars ==
    <<status, clientIdentifier, keepAlive, terminateRequested, threadState,
      externalRef, handlers>>
channelVars == <<inbox, received, outbox, fired, sent, posted>>
resourceVars == <<senderHas, receiverHas, transferred>>
ghostVars == <<initialKeepAlive, lastRefCall, terminateCalls>>
dispatchVars == <<dispatchArgs, dispatchResult, constructCall>>
vars ==
    <<handleVars, channelVars, resourceVars, ghostVars, dispatchVars,
      contextStopped, processExited, nextClientIdentifier, lastCall>>

\* The options argument of `new Worker(url, options)`: its type and, for an
\* object, what looking up each option finds: "absent", "throws" when the
\* lookup raises, or the kind of the value found.
WorkerOptionsArgument(type, name, smol, ref, workerData, data, transferList, env, argv, execArgv) ==
    [type |-> type, name |-> name, smol |-> smol, ref |-> ref,
     workerData |-> workerData, data |-> data, transferList |-> transferList,
     env |-> env, argv |-> argv, execArgv |-> execArgv]

\* The `env` option: "absent", "throws", "number" (not a cell), "string" (a
\* cell that is not an object) or "object" with its properties.
EnvOption(kind, props) == [kind |-> kind, props |-> props]
EnvAbsent == EnvOption("absent", <<>>)

NoOptions ==
    WorkerOptionsArgument("undefined", "absent", "absent", "absent", "absent",
                          "absent", "absent", EnvAbsent, "absent", "absent")

\* A constructor call: the argument count, the first argument ("string", or
\* "symbol", which convert<IDLUSVString> refuses), the second argument, and
\* whether the creating context's process.env object is initialized.
WorkerCall(argumentCount, argument0, options, processEnvInitialized) ==
    [argumentCount |-> argumentCount, argument0 |-> argument0,
     options |-> options, processEnvInitialized |-> processEnvInitialized]

\* The exception pending in the constructor's throw scope: the error and
\* the step that raised it.
Exception(error, at) == [error |-> error, at |-> at]
NoException == Exception("none", "none")

\* options.bun.env: not set, or the mapping captured (key/value pairs).
EnvSnapshot(map) == [set |-> TRUE, map |-> map]
NoEnv == [set |-> FALSE, map |-> {}]

\* The constructor's frame: the pending exception, whether the function has
\* returned an empty value, the WorkerOptions built so far (name, mini,
\* unref, data, env, argv, execArgv), the resources detached from the caller,
\* whether Worker::create was called and whether the wrapper was returned;
\* and, as history, the options looked up in order, the steps that raised
\* and what was done while an exception was already pending.
Frame0 ==
    [exception |-> NoException, done |-> FALSE,
     name |-> "unset", mini |-> FALSE, unref |-> FALSE, data |-> "unset",
     detached |-> {}, env |-> NoEnv, argv |-> "unset", execArgv |-> "unset",
     created |-> FALSE, returned |-> FALSE,
     reads |-> <<>>, raised |-> <<>>, whilePending |-> <<>>]

\* A call's record: the operation, the handle, the error thrown ("none"
\* when it returned), whether it returned a value other than undefined,
\* and that value; the options a constructor call was given and the frame
\* it ended with; the resource a use of a resource was about.
Call(op, h, error) ==
    [op |-> op, h |-> h, error |-> error, defined |-> FALSE, value |-> 0,
     options |-> NoOptions, outcome |-> Frame0, resource |-> "none"]
CallValue(op, h, value) ==
    [op |-> op, h |-> h, error |-> "none", defined |-> TRUE, value |-> value,
     options |-> NoOptions, outcome |-> Frame0, resource |-> "none"]
ConstructCall(h, options, outcome) ==
    [op |-> "construct", h |-> h, error |-> outcome.exception.error,
     defined |-> outcome.returned, value |-> h, options |-> options,
     outcome |-> outcome, resource |-> "none"]
UseCall(r, error) ==
    [op |-> "use", h |-> 0, error |-> error, defined |-> FALSE, value |-> 0,
     options |-> NoOptions, outcome |-> Frame0, resource |-> r]
Pending == Thrown("pending", "pending")

Init ==
    /\ status = [h \in Handles |-> "none"]
    /\ clientIdentifier = [h \in Handles |-> 0]
    /\ keepAlive = [h \in Handles |-> FALSE]
    /\ terminateRequested = [h \in Handles |-> FALSE]
    /\ threadState = [h \in Handles |-> "none"]
    /\ externalRef = [h \in Handles |-> FALSE]
    /\ handlers = [h \in Handles |-> [e \in EventNames |-> "null"]]
    /\ inbox = [h \in Handles |-> <<>>]
    /\ received = [h \in Handles |-> <<>>]
    /\ outbox = [h \in Handles |-> <<>>]
    /\ fired = [h \in Handles |-> <<>>]
    /\ senderHas = [r \in Resources |-> TRUE]
    /\ receiverHas = [r \in Resources |-> FALSE]
    /\ contextStopped = FALSE
    /\ processExited = FALSE
    /\ nextClientIdentifier = 2
    /\ lastCall = Call("none", 0, "none")
    /\ initialKeepAlive = [h \in Handles |-> FALSE]
    /\ lastRefCall = [h \in Handles |-> "none"]
    /\ terminateCalls = [h \in Handles |-> 0]
    /\ sent = [h \in Handles |-> <<>>]
    /\ posted = [h \in Handles |-> 0]
    /\ transferred = {}
    /\ dispatchArgs = <<>>
    /\ dispatchResult = Pending
    /\ constructCall = WorkerCall(0, "string", NoOptions, TRUE)

\* ------------------------------------------- the native Worker object ----
\* WebCore::Worker is driven by the binding and is not part of JSWorker.cpp.

\* Pending activity is derived from the thread: it lasts from the start of
\* the thread until the thread has fully exited.
Worker_hasPendingActivity(h) == threadState[h] = "running"

Worker_isContextStopped == contextStopped

\* The handle's `stopped` field: the thread has exited.
Worker_stopped(h) == threadState[h] = "exited"

\* terminate(): a request; the thread exits later, on its own steps.
Worker_terminate(h) ==
    terminateRequested' = [terminateRequested EXCEPT ![h] = TRUE]

Worker_setKeepAlive(h, value) ==
    keepAlive' = [keepAlive EXCEPT ![h] = value]

Range(seq) == {seq[i] : i \in 1..Len(seq)}

\* Deep-clone serialization with a transfer list: a function cannot be
\* cloned, and a transfer target must be named once and still be owned by
\* the caller.
Worker_serializeError(message, transfer) ==
    IF message.type = "function" THEN "SerializationError"
    ELSE IF \/ \E r \in Range(transfer) : ~senderHas[r]
            \/ Cardinality(Range(transfer)) # Len(transfer)
    THEN "TransferError"
    ELSE "none"

\* postMessage(): serialize on the caller's thread, moving the transferred
\* resources out of the caller's reach, and enqueue at the tail.
Worker_postMessage(h, message, transfer) ==
    /\ senderHas' = [r \in Resources |->
                        IF r \in Range(transfer) THEN FALSE ELSE senderHas[r]]
    /\ inbox' = [inbox EXCEPT ![h] =
                    Append(@, [id |-> Len(sent[h]) + 1, transfer |-> transfer])]

\* Worker::create: the collaborator assigns the next client identifier and
\* the keep-alive flag starts as the inverse of options.bun.unref.
Worker_create(h, unref) ==
    /\ clientIdentifier' = [clientIdentifier EXCEPT ![h] = nextClientIdentifier]
    /\ nextClientIdentifier' = nextClientIdentifier + 1
    /\ keepAlive' = [keepAlive EXCEPT ![h] = ~unref]

\* The event loop may let the process exit by idleness only when no worker
\* both keeps it alive and has pending activity.
EligibleToExit ==
    \A h \in Handles : ~(keepAlive[h] /\ Worker_hasPendingActivity(h))

\* -------------------------------------------------------- constructor ----
\* What a lookup of `ref` can find: no property, a value, or "throws" when
\* the lookup raises.
RefValues == {"absent", "true", "false", "undefined", "throws"}

\* The options script constructs the handles of a process with: `ref` alone
\* varies.
OptionsWithRef(type, ref) ==
    WorkerOptionsArgument(type, "absent", "absent", ref, "absent", "absent",
                          "absent", EnvAbsent, "absent", "absent")
ConstructorOptions ==
    {NoOptions, OptionsWithRef("number", "absent")}
    \cup {OptionsWithRef("object", r) : r \in RefValues}

\* A property of an env object: its key, how getOwnPropertyNames sees it
\* ("enumerable": an enumerable string key, "hidden": a string key that is
\* not enumerable, "symbol": a symbol key) and its value.
EnvProperty(key, kind, value) == [key |-> key, kind |-> kind, value |-> value]
StringValue(text) == [type |-> "string", text |-> text, number |-> 0]
NumberValue(n) == [type |-> "number", text |-> "", number |-> n]
ThrowingValue == [type |-> "throwing", text |-> "", number |-> 0]

\* JSValue::toWTFString on the values given: a string is its text, a number
\* its decimal digits; the conversion of a throwing value raises.
toWTFString(v) ==
    CASE v.type = "string" -> v.text
      [] v.type = "number" /\ v.number = 5 -> "5"
      [] v.type = "number" /\ v.number = 0 -> "0"
      [] OTHER -> ""

EnvGood ==
    EnvOption("object",
              <<EnvProperty("A", "enumerable", StringValue("x")),
                EnvProperty("H", "hidden", StringValue("h")),
                EnvProperty("B", "enumerable", NumberValue(5)),
                EnvProperty("S", "symbol", StringValue("s"))>>)
EnvBad ==
    EnvOption("object",
              <<EnvProperty("A", "enumerable", StringValue("x")),
                EnvProperty("B", "enumerable", ThrowingValue),
                EnvProperty("C", "enumerable", NumberValue(0))>>)
EnvOptions ==
    {EnvAbsent, EnvOption("throws", <<>>), EnvOption("number", <<>>),
     EnvOption("string", <<>>), EnvGood, EnvBad}

\* globalObject->processEnvObject(): the environment the creating context
\* inherited, as the object script sees.
processEnvObject ==
    EnvOption("object",
              <<EnvProperty("PATH", "enumerable", StringValue("/bin")),
                EnvProperty("N", "enumerable", NumberValue(0)),
                EnvProperty("H", "hidden", StringValue("h"))>>)

\* What the lookups of workerData, data and transferList find, without the
\* combinations that differ only in a property the constructor does not look
\* up (`data` beside a workerData that exists, `transferList` without
\* either).
DataOptions ==
    {<<workerData, "absent", transferList>> :
        workerData \in {"value", "uncloneable"},
        transferList \in {"absent", "port", "stuck", "throws"}}
    \cup {<<workerData, "value", transferList>> :
             workerData \in {"absent", "throws"},
             transferList \in {"absent", "port", "stuck", "throws"}}
    \cup {<<workerData, "absent", "absent">> : workerData \in {"absent", "throws"}}

\* Constructor calls without an options object, and two with one.
ConstructorCalls ==
    {WorkerCall(0, "string", NoOptions, TRUE),
     WorkerCall(1, "string", NoOptions, TRUE),
     WorkerCall(1, "string", NoOptions, FALSE),
     WorkerCall(1, "symbol", NoOptions, TRUE),
     WorkerCall(2, "string", OptionsWithRef("number", "absent"), TRUE),
     WorkerCall(2, "string", OptionsWithRef("object", "true"), TRUE),
     WorkerCall(3, "string",
                WorkerOptionsArgument("object", "string", "true", "undefined",
                                      "value", "absent", "port", EnvGood,
                                      "array", "array"), TRUE),
     WorkerCall(2, "symbol", OptionsWithRef("object", "absent"), TRUE)}

\* The constructor call is one with an options object, of every combination
\* of what the lookups find; process.env is left uninitialized only where
\* the constructor would consult it.
OptionsObjectCall(call) ==
    \E name \in {"absent", "string", "throws"},
       smol \in {"absent", "true"},
       ref \in {"absent", "false", "throws"},
       d \in DataOptions,
       env \in EnvOptions,
       argv \in {"absent", "badelem", "throws"},
       execArgv \in {"absent", "badelem", "throws"},
       processEnvInitialized \in BOOLEAN :
          /\ ~processEnvInitialized => env.kind \in {"absent", "number"}
          /\ call = WorkerCall(2, "string",
                               WorkerOptionsArgument("object", name, smol, ref,
                                                     d[1], d[2], d[3], env, argv,
                                                     execArgv),
                               processEnvInitialized)

\* JSValue::toBoolean on the values a `ref` property is drawn from.
toBoolean(v) == v = "true"

\* The slot a construction fills: the lowest one not used yet.
FreeSlot(h) ==
    /\ status[h] = "none"
    /\ \A g \in Handles : g < h => status[g] # "none"

pending(f) == f.exception.error # "none"

\* vm.throwException: the exception thrown becomes the pending one.
throwException(f, error, at) ==
    [f EXCEPT !.exception = Exception(error, at), !.raised = Append(@, at)]

RETURN_IF_EXCEPTION(f) == IF pending(f) THEN [f EXCEPT !.done = TRUE] ELSE f

\* WebCore::propagateException: throws unless an exception is pending.
propagateException(f, error, at) ==
    [(IF pending(f) THEN f ELSE throwException(f, error, at))
        EXCEPT !.done = TRUE]

\* What was done while an exception was pending is noted.
noted(f, what) ==
    IF pending(f) THEN [f EXCEPT !.whilePending = Append(@, what)] ELSE f

\* optionsObject->getIfPropertyExists: the lookup is made; when it raises,
\* the exception is left pending and the value returned is empty.
getIfPropertyExists(f, property, found) ==
    LET g == [noted(f, property) EXCEPT !.reads = Append(@, property)]
    IN  IF found = "throws"
        THEN throwException(g, "OptionGetterError", property)
        ELSE g

\* The value a lookup returned is not empty.
exists(found) == found \notin {"absent", "throws"}

\* unref taken from `ref` without the negation.
construct_unref_notNegated(options) ==
    IF options.type = "object" /\ options.ref # "absent"
    THEN toBoolean(options.ref)
    ELSE FALSE

\* options.bun.unref: false by default, the negation of `ref` when the
\* options argument is an object that has the property.
construct_unref(options) ==
    IF options.type = "object" /\ options.ref # "absent"
    THEN ~toBoolean(options.ref)
    ELSE FALSE

\* name: kept when it is a string; the scope is checked only then.
construct_name(f, options) ==
    LET g == getIfPropertyExists(f, "name", options.name)
    IN  IF exists(options.name) /\ options.name = "string"
        THEN RETURN_IF_EXCEPTION([g EXCEPT !.name = "string"])
        ELSE g

construct_smol(f, options) ==
    IF f.done THEN f
    ELSE LET g == getIfPropertyExists(f, "smol", options.smol)
         IN  IF exists(options.smol)
             THEN RETURN_IF_EXCEPTION([g EXCEPT !.mini = toBoolean(options.smol)])
             ELSE g

construct_ref(f, options) ==
    IF f.done THEN f
    ELSE LET g == getIfPropertyExists(f, "ref", options.ref)
         IN  IF exists(options.ref)
             THEN RETURN_IF_EXCEPTION([g EXCEPT !.unref = construct_unref(options)])
             ELSE g

\* workerData (else data) is serialized with the objects of transferList,
\* and the message ports among them are disentangled.  None of the three
\* lookups is followed by a check of the scope.  SerializedScriptValue::
\* create, entered with an exception pending, either reports that exception
\* or serializes all the same (serializesWhilePending).
construct_workerData(f, options, serializesWhilePending) ==
    IF f.done THEN f
    ELSE
    LET f1 == getIfPropertyExists(f, "workerData", options.workerData)
        f2 == IF exists(options.workerData) THEN f1
              ELSE getIfPropertyExists(f1, "data", options.data)
        workerData == IF exists(options.workerData) THEN options.workerData
                      ELSE IF exists(options.data) THEN options.data
                      ELSE "absent"
        f3 == getIfPropertyExists(f2, "transferList", options.transferList)
        transferList == IF exists(options.transferList) THEN <<"r1">> ELSE <<>>
        message == IF workerData = "uncloneable" THEN Closure ELSE Message
        error == Worker_serializeError(message, transferList)
        f4 == noted(f3, "serialize")
    IN  IF workerData = "absent" THEN f2
        ELSE IF pending(f3) /\ ~serializesWhilePending
        THEN propagateException(f4, "ExistingExceptionError", "serialize")
        ELSE IF error # "none"
        THEN propagateException(f4, error, "serialize")
        ELSE IF transferList = <<>>
        THEN [f4 EXCEPT !.data = "serialized"]
        ELSE IF options.transferList = "stuck"
        THEN propagateException(noted(f4, "disentangle"), "DataCloneError",
                                "disentangle")
        ELSE [noted(f4, "disentangle") EXCEPT
                 !.data = "serialized", !.detached = Range(transferList)]

\* getOwnPropertyNames(Strings, exclude DontEnum) of an env object.
ownEnumerableStringKeys(props) ==
    SelectSeq(props, LAMBDA p : p.kind = "enumerable")

\* env: the object given, else process.env when it is initialized and the
\* value given is not a cell; every key listed is read and its value
\* converted to a string, and the first conversion that raises ends the
\* call.
construct_env(f, options, processEnvInitialized) ==
    IF f.done THEN f
    ELSE
    LET g == RETURN_IF_EXCEPTION(getIfPropertyExists(f, "env", options.env.kind))
        isCell == options.env.kind \in {"string", "object"}
        envObject ==
            IF exists(options.env.kind) /\ isCell
            THEN IF options.env.kind = "object" THEN options.env ELSE EnvAbsent
            ELSE IF processEnvInitialized THEN processEnvObject
            ELSE EnvAbsent
        keys == ownEnumerableStringKeys(envObject.props)
        throwing == {i \in 1..Len(keys) : keys[i].value.type = "throwing"}
    IN  IF g.done THEN g
        ELSE IF envObject.kind # "object" THEN g
        ELSE IF throwing # {}
        THEN RETURN_IF_EXCEPTION(throwException(g, "CoercionError", "env"))
        ELSE [g EXCEPT !.env =
                 EnvSnapshot({<<keys[i].key, toWTFString(keys[i].value)>> :
                                 i \in 1..Len(keys)})]

\* argv: an array is iterated; an element whose conversion raises ends the
\* iteration with the exception pending, and what was converted so far is
\* stored.
construct_argv(f, options) ==
    IF f.done THEN f
    ELSE
    LET g == RETURN_IF_EXCEPTION(getIfPropertyExists(f, "argv", options.argv))
    IN  IF g.done THEN g
        ELSE IF options.argv = "array" THEN [g EXCEPT !.argv = "captured"]
        ELSE IF options.argv = "badelem"
        THEN [throwException(g, "CoercionError", "argv") EXCEPT !.argv = "partial"]
        ELSE g

construct_execArgv(f, options) ==
    IF f.done THEN f
    ELSE
    LET g == RETURN_IF_EXCEPTION(
                 getIfPropertyExists(f, "execArgv", options.execArgv))
    IN  IF g.done THEN g
        ELSE IF options.execArgv = "array" THEN [g EXCEPT !.execArgv = "captured"]
        ELSE IF options.execArgv = "badelem"
        THEN [throwException(g, "CoercionError", "execArgv")
                 EXCEPT !.execArgv = "partial"]
        ELSE g

\* The block with workerData serialized after env, argv and execArgv were
\* processed.
construct_optionsObject_dataLast(call, serializesWhilePending) ==
    LET o == call.options
    IN  construct_workerData(
          construct_execArgv(
            construct_argv(
              construct_env(
                construct_ref(construct_smol(construct_name(Frame0, o), o), o),
                o, call.processEnvInitialized),
              o),
            o),
          o, serializesWhilePending)

\* The block run when the second argument is an object.
construct_optionsObject(call, serializesWhilePending) ==
    LET o == call.options
    IN  construct_execArgv(
          construct_argv(
            construct_env(
              construct_workerData(
                construct_ref(construct_smol(construct_name(Frame0, o), o), o),
                o, serializesWhilePending),
              o, call.processEnvInitialized),
            o),
          o)

\* The wrapper returned although updatePtr reported that the thread did not
\* start.
construct_start_updatePtrIgnored(f, started) ==
    [f EXCEPT !.created = TRUE, !.returned = TRUE]

\* Worker::create, the wrapper, then updatePtr: when the thread did not
\* start the call throws and returns no wrapper.
construct_start(f, started) ==
    IF started
    THEN [f EXCEPT !.created = TRUE, !.returned = TRUE]
    ELSE [throwException(f, "ThreadStartError", "updatePtr")
             EXCEPT !.created = TRUE, !.done = TRUE]

\* The constructor with the test of the context made before the count of
\* the arguments.
construct_outcome_contextFirst(call, serializesWhilePending, started) ==
    IF Worker_isContextStopped
    THEN propagateException(Frame0, "ContextUnavailableError", "context")
    ELSE IF call.argumentCount < 1
    THEN propagateException(Frame0, "ArgumentError", "argumentCount")
    ELSE IF call.argument0 = "symbol"
    THEN propagateException(Frame0, "TypeError", "scriptUrl")
    ELSE LET f == IF call.options.type = "object"
                  THEN construct_optionsObject(call, serializesWhilePending)
                  ELSE Frame0
             g == RETURN_IF_EXCEPTION(f)
         IN  IF g.done THEN g ELSE construct_start(g, started)

\* The frame a constructor call ends with.
construct_outcome(call, serializesWhilePending, started) ==
    IF call.argumentCount < 1
    THEN propagateException(Frame0, "ArgumentError", "argumentCount")
    ELSE IF Worker_isContextStopped
    THEN propagateException(Frame0, "ContextUnavailableError", "context")
    ELSE IF call.argument0 = "symbol"
    THEN propagateException(Frame0, "TypeError", "scriptUrl")
    ELSE LET f == IF call.options.type = "object"
                  THEN construct_optionsObject(call, serializesWhilePending)
                  ELSE Frame0
             g == RETURN_IF_EXCEPTION(f)
         IN  IF g.done THEN g ELSE construct_start(g, started)

construct_Failed(h) ==
    UNCHANGED <<status, clientIdentifier, keepAlive, threadState, externalRef,
                nextClientIdentifier, initialKeepAlive>>

\* new Worker(...): `started` is the outcome of starting the thread.  The
\* wrapper made for a thread that did not start is not handed to script.
JSWorkerDOMConstructor_construct(h, call, serializesWhilePending, started) ==
    LET o == construct_outcome(call, serializesWhilePending, started)
    IN  /\ lastCall' = ConstructCall(h, call.options, o)
        /\ senderHas' = [r \in Resources |->
                            IF r \in o.detached THEN FALSE ELSE senderHas[r]]
        /\ IF ~o.created
           THEN construct_Failed(h)
           ELSE /\ Worker_create(h, o.unref)
                /\ initialKeepAlive' = [initialKeepAlive EXCEPT ![h] = ~o.unref]
                /\ threadState' = [threadState EXCEPT ![h] =
                                       IF started THEN "running" ELSE @]
                /\ status' = [status EXCEPT ![h] =
                                 IF o.returned THEN "live" ELSE "unstarted"]
                /\ externalRef' = [externalRef EXCEPT ![h] = o.returned]

\* Script constructs a handle of the process.
Construct(h) ==
    /\ ~processExited
    /\ FreeSlot(h)
    /\ \E argumentCount \in 0..2, options \in ConstructorOptions, started \in BOOLEAN :
          /\ argumentCount < 2 => options = NoOptions
          /\ JSWorkerDOMConstructor_construct(
                 h, WorkerCall(argumentCount, "string", options, TRUE), TRUE, started)
    /\ UNCHANGED <<terminateRequested, handlers, channelVars, receiverHas,
                   transferred, lastRefCall, terminateCalls, dispatchVars,
                   contextStopped, processExited>>

\* The constructor applied to the call drawn at the start.
ConstructDrawn(h) ==
    /\ FreeSlot(h)
    /\ \E serializesWhilePending \in BOOLEAN, started \in BOOLEAN :
          JSWorkerDOMConstructor_construct(
              h, constructCall, serializesWhilePending, started)
    /\ UNCHANGED <<terminateRequested, handlers, channelVars, receiverHas,
                   transferred, lastRefCall, terminateCalls, dispatchVars,
                   contextStopped, processExited>>

\* ------------------------------------------------ prototype functions ----
\* Script can call into a handle it still references, while the process runs.
Callable(h) == status[h] = "live" /\ externalRef[h] /\ ~processExited

\* terminate that raises on a handle whose termination was requested before.
terminateBody_throwsWhenRequested(h) ==
    /\ Worker_terminate(h)
    /\ lastCall' = Call("terminate", h,
                        IF terminateRequested[h] THEN "InvalidStateError" ELSE "none")
    /\ UNCHANGED keepAlive

\* terminate that also drops the keep-alive flag.
terminateBody_unrefs(h) ==
    /\ Worker_terminate(h)
    /\ lastCall' = Call("terminate", h, "none")
    /\ Worker_setKeepAlive(h, FALSE)

\* terminate that returns without the call to Worker::terminate.
terminateBody_notForwarded(h) ==
    /\ lastCall' = Call("terminate", h, "none")
    /\ UNCHANGED <<keepAlive, terminateRequested>>

jsWorkerPrototypeFunction_terminateBody(h) ==
    /\ Worker_terminate(h)
    /\ lastCall' = Call("terminate", h, "none")
    /\ UNCHANGED keepAlive

Terminate(h) ==
    /\ Callable(h)
    /\ jsWorkerPrototypeFunction_terminateBody(h)
    /\ terminateCalls' = [terminateCalls EXCEPT ![h] = Min(@ + 1, 2)]
    /\ UNCHANGED <<status, clientIdentifier, threadState, externalRef, handlers,
                   channelVars, resourceVars, initialKeepAlive, lastRefCall,
                   dispatchVars, contextStopped, processExited,
                   nextClientIdentifier>>

\* ref and unref with the flag values exchanged.
refBody_clearsKeepAlive(h) ==
    /\ Worker_setKeepAlive(h, FALSE)
    /\ lastCall' = Call("ref", h, "none")
    /\ UNCHANGED terminateRequested

jsWorkerPrototypeFunction_refBody(h) ==
    /\ Worker_setKeepAlive(h, TRUE)
    /\ lastCall' = Call("ref", h, "none")
    /\ UNCHANGED terminateRequested

jsWorkerPrototypeFunction_unrefBody(h) ==
    /\ Worker_setKeepAlive(h, FALSE)
    /\ lastCall' = Call("unref", h, "none")
    /\ UNCHANGED terminateRequested

Ref(h) ==
    /\ Callable(h)
    /\ jsWorkerPrototypeFunction_refBody(h)
    /\ lastRefCall' = [lastRefCall EXCEPT ![h] = "ref"]
    /\ UNCHANGED <<status, clientIdentifier, threadState, externalRef, handlers,
                   channelVars, resourceVars, initialKeepAlive, terminateCalls,
                   dispatchVars, contextStopped, processExited,
                   nextClientIdentifier>>

Unref(h) ==
    /\ Callable(h)
    /\ jsWorkerPrototypeFunction_unrefBody(h)
    /\ lastRefCall' = [lastRefCall EXCEPT ![h] = "unref"]
    /\ UNCHANGED <<status, clientIdentifier, threadState, externalRef, handlers,
                   channelVars, resourceVars, initialKeepAlive, terminateCalls,
                   dispatchVars, contextStopped, processExited,
                   nextClientIdentifier>>

\* The accessor returning the identifier itself.
threadIdGetter_noOffset(receiverIsWorker, h) ==
    lastCall' = IF ~receiverIsWorker
                THEN Call("threadId", 0, "none")
                ELSE CallValue("threadId", h, clientIdentifier[h])

\* The threadId accessor: undefined when the receiver is not a Worker.
jsWorker_threadIdGetter(receiverIsWorker, h) ==
    lastCall' = IF ~receiverIsWorker
                THEN Call("threadId", 0, "none")
                ELSE CallValue("threadId", h, clientIdentifier[h] - 1)

ThreadIdGet(h) ==
    /\ Callable(h)
    /\ \E receiverIsWorker \in BOOLEAN : jsWorker_threadIdGetter(receiverIsWorker, h)
    /\ UNCHANGED <<handleVars, channelVars, resourceVars, ghostVars, dispatchVars,
                   contextStopped, processExited, nextClientIdentifier>>

\* setEventHandlerAttribute: the slot of one event name holds one handler.
HandlerValues == {"null", "fn"}

setEventHandlerAttribute(h, event, value) ==
    handlers' = [handlers EXCEPT ![h][event] = value]

setJSWorker_onmessageSetter(h, value) ==
    /\ setEventHandlerAttribute(h, "message", value)
    /\ lastCall' = Call("set onmessage", h, "none")

setJSWorker_onmessageerrorSetter(h, value) ==
    /\ setEventHandlerAttribute(h, "messageerror", value)
    /\ lastCall' = Call("set onmessageerror", h, "none")

setJSWorker_onerrorSetter(h, value) ==
    /\ setEventHandlerAttribute(h, "error", value)
    /\ lastCall' = Call("set onerror", h, "none")

SetHandler(h) ==
    /\ Callable(h)
    /\ \E value \in HandlerValues :
          \/ setJSWorker_onmessageSetter(h, value)
          \/ setJSWorker_onmessageerrorSetter(h, value)
          \/ setJSWorker_onerrorSetter(h, value)
    /\ UNCHANGED <<status, clientIdentifier, keepAlive, terminateRequested,
                   threadState, externalRef, channelVars, resourceVars, ghostVars,
                   dispatchVars, contextStopped, processExited,
                   nextClientIdentifier>>

\* postMessage whose options form returns without the call to
\* Worker::postMessage.
postMessage_optionsFormNotForwarded(h, args) ==
    LET call == jsWorkerPrototypeFunction_postMessageOverloadDispatcher(args)
        error == IF call.error # "none"
                 THEN call.error
                 ELSE Worker_serializeError(call.message, call.transfer)
    IN  /\ lastCall' = Call("postMessage", h, error)
        /\ IF error = "none" /\ call.form # "options"
           THEN Worker_postMessage(h, call.message, call.transfer)
           ELSE UNCHANGED <<inbox, senderHas>>
        /\ UNCHANGED <<keepAlive, terminateRequested>>

\* postMessage that goes on to Worker::postMessage, with an empty transfer
\* list, after the conversion of the transfer list has raised.
postMessage_conversionErrorNotChecked(h, args) ==
    LET call == jsWorkerPrototypeFunction_postMessageOverloadDispatcher(args)
        error == IF call.error # "none"
                 THEN call.error
                 ELSE Worker_serializeError(call.message, call.transfer)
    IN  /\ lastCall' = Call("postMessage", h, error)
        /\ IF error = "none"
           THEN Worker_postMessage(h, call.message, call.transfer)
           ELSE IF call.error # "none" /\ call.form # "none"
           THEN Worker_postMessage(h, args[1], <<>>)
           ELSE UNCHANGED <<inbox, senderHas>>
        /\ UNCHANGED <<keepAlive, terminateRequested>>

\* postMessage: resolve the overload, then hand the message and the
\* transfer list to Worker::postMessage, whose serialization may fail.
jsWorkerPrototypeFunction_postMessage(h, args) ==
    LET call == jsWorkerPrototypeFunction_postMessageOverloadDispatcher(args)
        error == IF call.error # "none"
                 THEN call.error
                 ELSE Worker_serializeError(call.message, call.transfer)
    IN  /\ lastCall' = Call("postMessage", h, error)
        /\ IF error = "none"
           THEN Worker_postMessage(h, call.message, call.transfer)
           ELSE UNCHANGED <<inbox, senderHas>>
        /\ UNCHANGED <<keepAlive, terminateRequested>>

\* The resources the caller names for transfer: the elements of an iterable
\* second argument, else those of the `transfer` property of an object.
NamedTransfer(args) ==
    IF Len(args) < 2 THEN {}
    ELSE IF isObject(args[2]) /\ args[2].iter = "method" THEN Range(args[2].elems)
    ELSE IF isObject(args[2]) /\ args[2].hasTransfer THEN Range(args[2].transfer.elems)
    ELSE {}

PostMessage(h) ==
    /\ Callable(h)
    /\ Len(sent[h]) < MaxSends
    /\ \E args \in PostArgLists :
          /\ jsWorkerPrototypeFunction_postMessage(h, args)
          /\ IF lastCall'.error = "none"
             THEN /\ sent' = [sent EXCEPT ![h] = Append(@, Len(@) + 1)]
                  /\ transferred' = transferred \cup NamedTransfer(args)
             ELSE UNCHANGED <<sent, transferred>>
    /\ UNCHANGED <<status, clientIdentifier, threadState, externalRef, handlers,
                   received, outbox, fired, posted, receiverHas, ghostVars,
                   dispatchVars, contextStopped, processExited,
                   nextClientIdentifier>>

\* ---------------------------------------------------- the worker thread ----
\* The thread takes the oldest queued message; the resources transferred
\* with it become usable on its side.
ThreadDeliver(h) ==
    /\ ~processExited
    /\ threadState[h] = "running"
    /\ inbox[h] # <<>>
    /\ received' = [received EXCEPT ![h] = Append(@, Head(inbox[h]).id)]
    /\ receiverHas' = [r \in Resources |->
                          IF r \in Range(Head(inbox[h]).transfer)
                          THEN TRUE ELSE receiverHas[r]]
    /\ inbox' = [inbox EXCEPT ![h] = Tail(@)]
    /\ UNCHANGED <<handleVars, outbox, fired, sent, posted, senderHas, transferred,
                   ghostVars, dispatchVars, contextStopped, processExited,
                   nextClientIdentifier, lastCall>>

\* The thread posts a message to its handle.
ThreadPost(h) ==
    /\ ~processExited
    /\ threadState[h] = "running"
    /\ posted[h] < MaxPosts
    /\ posted' = [posted EXCEPT ![h] = @ + 1]
    /\ outbox' = [outbox EXCEPT ![h] = Append(@, posted[h] + 1)]
    /\ UNCHANGED <<handleVars, inbox, received, fired, sent, resourceVars,
                   ghostVars, dispatchVars, contextStopped, processExited,
                   nextClientIdentifier, lastCall>>

\* A `message` event fires on the handle for the oldest posted message;
\* none fires once the handle has no pending activity.
FireMessage(h) ==
    /\ ~processExited
    /\ Worker_hasPendingActivity(h)
    /\ outbox[h] # <<>>
    /\ fired' = [fired EXCEPT ![h] = Append(@, Head(outbox[h]))]
    /\ outbox' = [outbox EXCEPT ![h] = Tail(@)]
    /\ UNCHANGED <<handleVars, inbox, received, sent, posted, resourceVars,
                   ghostVars, dispatchVars, contextStopped, processExited,
                   nextClientIdentifier, lastCall>>

\* The thread exits: on its own, or because terminate was requested.
ThreadExit(h) ==
    /\ ~processExited
    /\ threadState[h] = "running"
    /\ threadState' = [threadState EXCEPT ![h] = "exited"]
    /\ UNCHANGED <<status, clientIdentifier, keepAlive, terminateRequested,
                   externalRef, handlers, channelVars, resourceVars, ghostVars,
                   dispatchVars, contextStopped, processExited,
                   nextClientIdentifier, lastCall>>

\* The caller uses a resource: it fails once the resource was transferred.
UseResource(r) ==
    /\ ~processExited
    /\ lastCall' = UseCall(r, IF senderHas[r] THEN "none" ELSE "Detached")
    /\ UNCHANGED <<handleVars, channelVars, resourceVars, ghostVars, dispatchVars,
                   contextStopped, processExited, nextClientIdentifier>>

\* ------------------------------------------- the collector and the process
\* Script drops its last reference to the wrapper.
DropRef(h) ==
    /\ ~processExited
    /\ status[h] = "live"
    /\ externalRef[h]
    /\ externalRef' = [externalRef EXCEPT ![h] = FALSE]
    /\ UNCHANGED <<status, clientIdentifier, keepAlive, terminateRequested,
                   threadState, handlers, channelVars, resourceVars, ghostVars,
                   dispatchVars, contextStopped, processExited,
                   nextClientIdentifier, lastCall>>

\* The callback with the test of the context inverted.
isReachableFromOpaqueRoots_contextTestInverted(h) ==
    Worker_isContextStopped /\ Worker_hasPendingActivity(h)

\* The callback without the test of the pending activity.
isReachableFromOpaqueRoots_neverReachable(h) ==
    ~Worker_isContextStopped /\ FALSE

JSWorkerOwner_isReachableFromOpaqueRoots(h) ==
    ~Worker_isContextStopped /\ Worker_hasPendingActivity(h)

JSWorkerOwner_finalize(h) ==
    status' = [status EXCEPT ![h] = "finalized"]

\* The collector reclaims a wrapper nothing references, unless its owner
\* reports it reachable from opaque roots.
Collect(h) ==
    /\ ~processExited
    /\ status[h] = "live"
    /\ ~externalRef[h]
    /\ ~JSWorkerOwner_isReachableFromOpaqueRoots(h)
    /\ JSWorkerOwner_finalize(h)
    /\ UNCHANGED <<clientIdentifier, keepAlive, terminateRequested, threadState,
                   externalRef, handlers, channelVars, resourceVars, ghostVars,
                   dispatchVars, contextStopped, processExited,
                   nextClientIdentifier, lastCall>>

\* The creating context is torn down.
ContextStop ==
    /\ ~processExited
    /\ ~contextStopped
    /\ contextStopped' = TRUE
    /\ UNCHANGED <<handleVars, channelVars, resourceVars, ghostVars, dispatchVars,
                   processExited, nextClientIdentifier, lastCall>>

\* The process exits by idleness.
ProcessExit ==
    /\ ~processExited
    /\ EligibleToExit
    /\ processExited' = TRUE
    /\ UNCHANGED <<handleVars, channelVars, resourceVars, ghostVars, dispatchVars,
                   contextStopped, nextClientIdentifier, lastCall>>

\* ---------------------------------------------------- specifications ----
\* One handle with every operation script has on it, its channel and its
\* thread.
Next ==
    \/ Construct(1)
    \/ PostMessage(1)
    \/ Terminate(1)
    \/ Ref(1)
    \/ Unref(1)
    \/ ThreadIdGet(1)
    \/ SetHandler(1)
    \/ ThreadDeliver(1)
    \/ ThreadPost(1)
    \/ FireMessage(1)
    \/ ThreadExit(1)
    \/ \E r \in Resources : UseResource(r)

Spec == Init /\ [][Next]_vars

\* The thread of a handle whose termination was requested does exit.
FairSpec == Spec /\ WF_vars(terminateRequested[1] /\ ThreadExit(1))

\* The process: every handle's life cycle, the collector, the teardown of
\* the creating context and the exit by idleness.
ProcNext ==
    \/ \E h \in Handles :
          \/ Construct(h)
          \/ Terminate(h)
          \/ Ref(h)
          \/ Unref(h)
          \/ ThreadExit(h)
          \/ DropRef(h)
          \/ Collect(h)
    \/ ContextStop
    \/ ProcessExit

ProcSpec == Init /\ [][ProcNext]_vars

\* Overload resolution alone, on every argument list.
DispatchInit ==
    /\ Init!1 /\ Init!2 /\ Init!3 /\ Init!4 /\ Init!5 /\ Init!6 /\ Init!7
    /\ Init!8 /\ Init!9 /\ Init!10 /\ Init!11 /\ Init!12 /\ Init!13 /\ Init!14
    /\ Init!15 /\ Init!16 /\ Init!17 /\ Init!18 /\ Init!19 /\ Init!20 /\ Init!21
    /\ Init!22 /\ Init!23
    /\ dispatchArgs \in ArgLists
    /\ dispatchResult = Pending
    /\ Init!26

Dispatch ==
    /\ dispatchResult = Pending
    /\ dispatchResult' =
          jsWorkerPrototypeFunction_postMessageOverloadDispatcher(dispatchArgs)
    /\ UNCHANGED <<handleVars, channelVars, resourceVars, ghostVars, dispatchArgs,
                   constructCall, contextStopped, processExited,
                   nextClientIdentifier, lastCall>>

DispatchSpec == DispatchInit /\ [][Dispatch]_vars

\* The constructor alone, on every call, in a context that may have been
\* torn down.
ConstructInit ==
    /\ Init!1 /\ Init!2 /\ Init!3 /\ Init!4 /\ Init!5 /\ Init!6 /\ Init!7
    /\ Init!8 /\ Init!9 /\ Init!10 /\ Init!11 /\ Init!12 /\ Init!13 /\ Init!14
    /\ Init!15 /\ Init!16 /\ Init!17 /\ Init!18 /\ Init!19 /\ Init!20 /\ Init!21
    /\ Init!22 /\ Init!23 /\ Init!24 /\ Init!25
    /\ \/ constructCall \in ConstructorCalls
       \/ OptionsObjectCall(constructCall)

ConstructNext ==
    \/ ConstructDrawn(1)
    \/ ContextStop

ConstructSpec == ConstructInit /\ [][ConstructNext]_vars

\* ------------------------------------------------------------ claims ----
\* The overload rule as the specification words it, for an argument list:
\* what the call resolves to, or the error it fails with.
C1_Rule(args) ==
    IF Len(args) < 1 THEN Thrown("none", "ArgumentError")
    ELSE IF Len(args) = 1 THEN Resolved("options", args[1], <<>>)
    ELSE LET second == args[2]
             asList == convertSequenceOfObjects(second)
             property == convertSequenceOfObjects(second.transfer)
         IN  IF second.type \in {"undefined", "null"}
             THEN Resolved("options", args[1], <<>>)
             ELSE IF second.iter = "method"
             THEN IF asList.error = "none"
                  THEN Resolved("transferList", args[1], asList.list)
                  ELSE Thrown("transferList", "TypeError")
             ELSE IF second.type \in {"object", "function"}
             THEN IF ~second.hasTransfer
                  THEN Resolved("options", args[1], <<>>)
                  ELSE IF property.error = "none"
                  THEN Resolved("options", args[1], property.list)
                  ELSE Thrown("options", "TypeError")
             ELSE Thrown("none", "TypeError")

\* C1: for every argument count and every shape of the second argument
\* whose iterator lookup answers, postMessage resolves as the rule says: it
\* fails with the rule's error, or takes the rule's overload with the rule's
\* message and transfer list.
C1_OverloadResolution ==
    (dispatchResult # Pending
        /\ (Len(dispatchArgs) >= 2 => dispatchArgs[2].iter # "throws"))
    => LET rule == C1_Rule(dispatchArgs)
       IN  /\ dispatchResult.error = rule.error
           /\ rule.error = "none" => dispatchResult = rule

\* An iterable object that also carries a `transfer` property was resolved
\* to the transfer-list form.
C1_Witness ==
    /\ dispatchResult # Pending
    /\ Len(dispatchArgs) = 2
    /\ dispatchArgs[2].iter = "method"
    /\ dispatchArgs[2].hasTransfer
    /\ dispatchResult.form = "transferList"
    /\ dispatchResult.error = "none"

IsPrefix(a, b) ==
    /\ Len(a) <= Len(b)
    /\ \A i \in 1..Len(a) : a[i] = b[i]

\* C2: on every handle, the messages the thread has been handed are, in
\* order, the first of the messages of the successful postMessage calls: no
\* message is delivered before one sent earlier on the same channel.
C2_FifoDelivery ==
    \A h \in Handles : IsPrefix(received[h], sent[h])

\* Two messages were sent and both delivered, while the thread had already
\* posted a message of its own.
C2_Witness ==
    /\ Len(sent[1]) = 2
    /\ received[1] = sent[1]
    /\ posted[1] > 0

\* C3: no resource is usable on both sides, and a resource named in the
\* transfer list of a postMessage call that returned is not usable by the
\* caller in any later state: a later use of it fails.
C3_TransferExclusive ==
    /\ \A r \in Resources : ~(senderHas[r] /\ receiverHas[r])
    /\ \A r \in transferred : ~senderHas[r]
    /\ (lastCall.op = "use" /\ lastCall.resource \in transferred)
          => lastCall.error # "none"

\* The caller used a resource after the thread had received it, and failed.
C3_Witness ==
    /\ lastCall.op = "use"
    /\ lastCall.error = "Detached"
    /\ lastCall.resource \in transferred
    /\ receiverHas[lastCall.resource]

\* The wrapper of slot h is destroyed in this step.
Destroyed(h) == status[h] = "live" /\ status'[h] = "finalized"

\* C4: the reachability callback reports a wrapper reachable exactly when
\* its context is not stopped and it has pending activity, and no step
\* destroys a wrapper in a state where that holds, referenced or not.
C4_PendingActivityKeepsHandle ==
    [][\A h \in Handles :
          /\ status[h] = "live" =>
                (JSWorkerOwner_isReachableFromOpaqueRoots(h)
                    <=> (~contextStopped /\ Worker_hasPendingActivity(h)))
          /\ Destroyed(h) =>
                ~(Worker_hasPendingActivity(h) /\ ~contextStopped)]_vars

\* A wrapper nothing references is still there, its thread running, while
\* the wrapper of the other handle has been destroyed.
C4_Witness ==
    \E h, g \in Handles :
       /\ status[h] = "live"
       /\ ~externalRef[h]
       /\ Worker_hasPendingActivity(h)
       /\ ~contextStopped
       /\ status[g] = "finalized"

\* C5 as stated: a wrapper is destroyed only in a state where nothing
\* references it and it has no pending activity.
C5_Original ==
    [][\A h \in Handles :
          Destroyed(h) => (~externalRef[h] /\ ~Worker_hasPendingActivity(h))]_vars

\* C5 amended: a wrapper is destroyed only in a state where nothing
\* references it and either it has no pending activity or its context is
\* stopped.
C5_DestroyedOnlyWhenUnreachable ==
    [][\A h \in Handles :
          Destroyed(h) =>
             /\ ~externalRef[h]
             /\ (~Worker_hasPendingActivity(h) \/ contextStopped)]_vars

\* A wrapper was destroyed while its thread was still running, its context
\* stopped.
C5_Witness ==
    \E h \in Handles :
       /\ status[h] = "finalized"
       /\ Worker_hasPendingActivity(h)
       /\ contextStopped

\* C6: once terminate() has been called on a handle, its pending activity
\* eventually ends for good, and no `message` event fires on a handle
\* without pending activity, whatever its thread has posted.
C6_TerminateQuiesces ==
    /\ \A h \in Handles :
          (terminateCalls[h] > 0) ~> [](~Worker_hasPendingActivity(h))
    /\ [][\A h \in Handles :
             ~Worker_hasPendingActivity(h) => fired'[h] = fired[h]]_vars

\* terminate() has returned and the thread is still running, a message it
\* posted still queued.
C6_Witness ==
    /\ lastCall = Call("terminate", 1, "none")
    /\ Worker_hasPendingActivity(1)
    /\ outbox[1] # <<>>

\* What script and the collaborator can observe of a handle.
HandleState(h) ==
    <<status[h], clientIdentifier[h], keepAlive[h], threadState[h], handlers[h]>>

\* C7: every terminate() call returns undefined and raises nothing; a call
\* on a handle whose thread has stopped, or on which terminate() was called
\* before, leaves the handle's state as it was, and a repeated call leaves
\* the termination request as it was.
C7_TerminateIdempotent ==
    [][\A h \in Handles :
          Terminate(h) =>
             /\ lastCall'.error = "none"
             /\ ~lastCall'.defined
             /\ (terminateCalls[h] > 0 \/ Worker_stopped(h))
                   => HandleState(h)' = HandleState(h)
             /\ terminateCalls[h] > 0
                   => terminateRequested'[h] = terminateRequested[h]]_vars

\* terminate() was called more than once on a handle, whose thread has
\* stopped.
C7_Witness ==
    /\ terminateCalls[1] = 2
    /\ Worker_stopped(1)
    /\ lastCall = Call("terminate", 1, "none")

\* C8: on every constructed handle keepAlive is true when the last of
\* ref()/unref() called was ref(), false when it was unref(), and the value
\* fixed at construction when neither was called, whatever other operations
\* were made.
C8_KeepAliveFrame ==
    \A h \in Handles :
       status[h] # "none" =>
          keepAlive[h] = CASE lastRefCall[h] = "ref" -> TRUE
                           [] lastRefCall[h] = "unref" -> FALSE
                           [] OTHER -> initialKeepAlive[h]

\* unref() was called on a handle constructed reffed; afterwards terminate()
\* was called, a handler assigned and a message posted.
C8_Witness ==
    /\ lastRefCall[1] = "unref"
    /\ initialKeepAlive[1]
    /\ ~keepAlive[1]
    /\ terminateCalls[1] > 0
    /\ handlers[1]["message"] = "fn"
    /\ lastCall = Call("postMessage", 1, "none")

\* The values of `ref` that are falsy.
C9_Falsy == {"false", "undefined"}

\* C9: a construction that returned a handle left its keepAlive false
\* exactly when the options argument is an object with a `ref` property
\* whose value is falsy.
C9_InitialKeepAlive ==
    (lastCall.op = "construct" /\ lastCall.error = "none")
    => (keepAlive[lastCall.h] =
           ~(lastCall.options.type = "object" /\ lastCall.options.ref \in C9_Falsy))

\* A handle was constructed with {ref: undefined}.
C9_Witness ==
    /\ lastCall.op = "construct"
    /\ lastCall.error = "none"
    /\ lastCall.options.ref = "undefined"
    /\ ~keepAlive[1]

\* C10: the process has exited by idleness only in a state where no handle
\* both keeps it alive and has pending activity; while a handle whose last
\* ref()/unref() call was ref() has pending activity the process cannot
\* exit; and a running process can exit when every handle with pending
\* activity was last unreffed.
C10_IdleExit ==
    /\ processExited => EligibleToExit
    /\ \A h \in Handles :
          (lastRefCall[h] = "ref" /\ Worker_hasPendingActivity(h))
             => ~ENABLED ProcessExit
    /\ (~processExited
          /\ \A h \in Handles :
                Worker_hasPendingActivity(h) => lastRefCall[h] = "unref")
       => ENABLED ProcessExit

\* The process exited with one worker running unreffed, after the other,
\* last reffed, had stopped.
C10_Witness ==
    \E h, g \in Handles :
       /\ processExited
       /\ Worker_hasPendingActivity(h)
       /\ lastRefCall[h] = "unref"
       /\ lastRefCall[g] = "ref"
       /\ Worker_stopped(g)


\* C11: a constructor call without arguments fails with ArgumentError, also
\* in a context that was torn down; a call with an argument in a context
\* that was torn down fails with ContextUnavailableError; and in both cases
\* no option is looked up, nothing is serialized or detached from the
\* caller, Worker::create is not called and no handle is returned.
C11_ArgumentAndContextErrors ==
    [][ConstructDrawn(1) =>
          LET o == lastCall'.outcome
          IN  /\ constructCall.argumentCount < 1
                    => lastCall'.error = "ArgumentError"
              /\ (constructCall.argumentCount >= 1 /\ contextStopped)
                    => lastCall'.error = "ContextUnavailableError"
              /\ (constructCall.argumentCount < 1 \/ contextStopped)
                    => /\ o.reads = <<>>
                       /\ o.data = "unset"
                       /\ o.detached = {}
                       /\ senderHas' = senderHas
                       /\ ~o.created
                       /\ nextClientIdentifier' = nextClientIdentifier
                       /\ ~lastCall'.defined
                       /\ status' = status]_vars

\* In a context that was torn down, a call that names workerData and a port
\* to transfer failed with ContextUnavailableError, the port still the
\* caller's.
C11_Witness ==
    /\ contextStopped
    /\ lastCall.op = "construct"
    /\ lastCall.error = "ContextUnavailableError"
    /\ lastCall.options.workerData = "value"
    /\ lastCall.options.transferList = "port"
    /\ senderHas["r1"]
    /\ status[1] = "none"

\* C12: a constructor call that reached Worker::create fails with
\* ThreadStartError exactly when the thread did not start, and then returns
\* no handle; a call that returns a handle raised nothing and its thread is
\* running.
C12_ThreadStartError ==
    [][ConstructDrawn(1) =>
          LET o == lastCall'.outcome
          IN  /\ (o.created /\ threadState'[1] # "running")
                    => /\ lastCall'.error = "ThreadStartError"
                       /\ ~lastCall'.defined
                       /\ ~externalRef'[1]
                       /\ status'[1] # "live"
              /\ lastCall'.error = "ThreadStartError"
                    => (o.created /\ threadState'[1] # "running")
              /\ lastCall'.defined
                    => /\ lastCall'.error = "none"
                       /\ o.created
                       /\ threadState'[1] = "running"
                       /\ status'[1] = "live"]_vars

\* A call whose options were all accepted failed with ThreadStartError: the
\* identifier was assigned, and script holds no handle.
C12_Witness ==
    /\ lastCall.op = "construct"
    /\ lastCall.error = "ThreadStartError"
    /\ lastCall.options.name = "string"
    /\ lastCall.outcome.env.set
    /\ clientIdentifier[1] = 2
    /\ threadState[1] = "none"
    /\ ~externalRef[1]
    /\ ~lastCall.defined

\* The steps of the constructor that process the options.
C13_OptionSteps ==
    {"name", "smol", "ref", "workerData", "data", "transferList", "serialize",
     "disentangle", "env", "argv", "execArgv"}

\* C13: when a step that processes the options raises, the call ends there:
\* nothing more is looked up, serialized or detached with the exception
\* pending, the error that reaches the caller is the one raised,
\* Worker::create is not called and no handle is returned.
C13_OptionErrorsAbort ==
    LET o == lastCall.outcome
    IN  (lastCall.op = "construct" /\ o.raised # <<>>
            /\ o.raised[1] \in C13_OptionSteps)
        => /\ o.whilePending = <<>>
           /\ o.raised = <<o.exception.at>>
           /\ lastCall.error # "none"
           /\ ~o.created
           /\ ~lastCall.defined

\* C14: a postMessage call that raises leaves the channel and the resources
\* as they were: nothing is enqueued for the thread, nothing is detached
\* from the caller, and the error is the call's result.  The four ways to
\* raise are told apart by the error and the arguments.
C14_PostMessageErrorAborts ==
    [][\A h \in Handles :
          (PostMessage(h) /\ lastCall'.error # "none")
             => /\ lastCall'.op = "postMessage"
                /\ ~lastCall'.defined
                /\ inbox' = inbox
                /\ sent' = sent
                /\ received' = received
                /\ outbox' = outbox
                /\ senderHas' = senderHas
                /\ receiverHas' = receiverHas
                /\ transferred' = transferred]_vars

\* A message is queued for the thread, and a postMessage call after it
\* failed converting its transfer list.
C14_Witness ==
    /\ lastCall = Call("postMessage", 1, "TypeError")
    /\ Len(sent[1]) = 1
    /\ Len(inbox[1]) = 1
    /\ received[1] = <<>>
    /\ senderHas["r1"]

\* The mapping the claim names for an env object: its enumerable string
\* keys, each with its value as a string.
C15_Mapping(envObject) ==
    {<<envObject.props[i].key, toWTFString(envObject.props[i].value)>> :
        i \in {j \in 1..Len(envObject.props) :
                  envObject.props[j].kind = "enumerable"}}

\* C15: after a constructor call that returned a handle, the env captured
\* for the worker is the inherited environment when the call named no `env`
\* (it had no options argument, or an options argument without the
\* property) and the creating context has one; and it is the mapping of the
\* object given when `env` is an object.
C15_EnvSnapshot ==
    LET o == lastCall.outcome
        options == lastCall.options
    IN  (lastCall.op = "construct" /\ lastCall.error = "none")
        => /\ ((options.type # "object" \/ options.env.kind = "absent")
                  /\ constructCall.processEnvInitialized)
                 => o.env = EnvSnapshot(C15_Mapping(processEnvObject))
           /\ (options.type = "object" /\ options.env.kind = "object")
                 => o.env = EnvSnapshot(C15_Mapping(options.env))

\* C16: a read of threadId on a handle returns its clientIdentifier minus
\* one, a number that is not negative, whatever was called on the handle
\* before and whether or not its thread still runs; a read on a receiver
\* that is not a Worker returns undefined and raises nothing; and no step
\* changes the clientIdentifier of a constructed handle, so that two reads
\* on a handle return the same number.
C16_ThreadIdStable ==
    /\ [](lastCall.op = "threadId" =>
             /\ lastCall.error = "none"
             /\ IF lastCall.h = 0
                THEN ~lastCall.defined
                ELSE /\ lastCall.defined
                     /\ lastCall.value = clientIdentifier[lastCall.h] - 1
                     /\ lastCall.value >= 0)
    /\ [][\A h \in Handles :
             status[h] # "none" => clientIdentifier'[h] = clientIdentifier[h]]_vars

\* threadId was read on a handle that was unreffed and terminated, after
\* its thread had exited.
C16_Witness ==
    /\ lastCall = CallValue("threadId", 1, 1)
    /\ lastRefCall[1] = "unref"
    /\ terminateCalls[1] > 0
    /\ Worker_stopped(1)
    /\ Len(sent[1]) > 0

\* The steps of the constructor after workerData and transferList.
C17_LaterSteps == {"env", "argv", "execArgv", "updatePtr"}

\* C17: when a constructor call that names workerData (or data) that can be
\* cloned and a port to transfer fails first at a later step (the lookup or
\* a conversion of env, argv or execArgv, or the start of the thread), the
\* transferList was looked up before env, the caller is given no handle,
\* and the port is detached from the caller all the same.
C17_NoRollbackOfTransfers ==
    LET o == lastCall.outcome
        options == lastCall.options
    IN  (lastCall.op = "construct" /\ o.raised # <<>>
            /\ o.raised[1] \in C17_LaterSteps
            /\ (options.workerData = "value"
                   \/ (options.workerData = "absent" /\ options.data = "value"))
            /\ options.transferList = "port")
        => /\ lastCall.error # "none"
           /\ ~lastCall.defined
           /\ status[1] # "live"
           /\ o.data = "serialized"
           /\ o.detached = {"r1"}
           /\ ~senderHas["r1"]
           /\ \E i, j \in 1..Len(o.reads) :
                 i < j /\ o.reads[i] = "transferList" /\ o.reads[j] = "env"

\* A call failed converting a value of env after its port had been
\* detached: no slot was filled, and the caller no longer has the port.
C17_Witness ==
    /\ lastCall.op = "construct"
    /\ lastCall.error = "CoercionError"
    /\ lastCall.outcome.exception.at = "env"
    /\ lastCall.options.data = "value"
    /\ status[1] = "none"
    /\ ~senderHas["r1"]

=============================================================================
